---- MODULE Spec2Model ----
(***************************************************************************)
(* Wake-cycle state machine of the ESP32 soil moisture / temperature       *)
(* logger (esp32_soil_temp_http.ino): setup() dispatching on the wake      *)
(* cause, the full cycle (WiFi, time sync, authentication, sensors,        *)
(* display, delivery with retry and backoff) and the button cycle, each    *)
(* ending in deep sleep.                                                   *)
(*                                                                         *)
(* Floats are modelled at whole-unit resolution, with one distinguished    *)
(* value NaN for which every ordered comparison is false.  The timer wake  *)
(* source is kept in seconds (the microsecond value 3600 * 1e6 does not    *)
(* fit the model checker's integers).                                      *)
(***************************************************************************)
EXTENDS Integers, Sequences, FiniteSets, TLC

VARIABLES
    pc,              \* position of the program in setup() and its callees
    wakeCause,       \* esp_sleep_get_wakeup_cause() of this boot
    TIME_SYNC_MODE,  \* compiled-in configuration: 0=NTP, 1=Server, 2=Hybrid
    wakeSources,     \* wake sources armed since this boot
    wifiStatus,      \* WiFi.status()
    wifiPolls,       \* failed polls of the connectWiFi loop, modulo MaxWifiPolls + 1
    now,             \* local 'now' of syncTimeIfNeeded: last value of time(nullptr)
    elapsed,         \* millis() - start in syncTimeIfNeeded
    ntpSynced,       \* global bool ntpSynced
    jwtToken,        \* global String jwtToken ("" = empty String)
    moisture,        \* local reading of the cycle
    temperature,
    displayed,       \* pairs handed to showDisplay in this cycle
    attempt,         \* sendDataWithRetry: attempt
    delayMs,         \* sendDataWithRetry: delayMs
    pauses,          \* delay(delayMs) calls of sendDataWithRetry in this cycle
    posts,           \* telemetry POSTs of this cycle, in order
    net,             \* other network operations of this cycle (counts)
    outcome,         \* how sendDataWithRetry ended: "None", "Sent", "Abandoned"
    calls,           \* functions called by runFullCycle / handleButtonEvent in this cycle
    authResponse     \* status and token field of the response to authenticate's POST

vars == <<pc, wakeCause, TIME_SYNC_MODE, wakeSources, wifiStatus, wifiPolls,
          now, elapsed, ntpSynced, jwtToken, moisture, temperature, displayed,
          attempt, delayMs, pauses, posts, net, outcome, calls, authResponse>>

-----------------------------------------------------------------------------
(* Program constants *)

BUTTON_PIN == 14
SLEEP_INTERVAL_SEC == 3600
MAX_RETRIES == 3
INITIAL_DELAY_MS == 1000
HTTP_CODE_OK == 200
HTTP_CODE_CREATED == 201
NTP_POLL_MS == 500
NTP_TIMEOUT_MS == 5000
ADC_MAX == 4095
PlausibleEpoch == 8 * 3600

(* Bound of the model: the connectWiFi loop has no bound of its own, its    *)
(* failed polls are counted modulo MaxWifiPolls + 1.                       *)
MaxWifiPolls == 1

(* The float NaN: unordered with every value, itself included. *)
NaN == 9999

-----------------------------------------------------------------------------
(* Values the environment can produce *)

SyncModes == {0, 1, 2}
HttpCodes == {HTTP_CODE_OK, HTTP_CODE_CREATED, 500, -1}
TimeValues == {0, PlausibleEpoch - 1, PlausibleEpoch}
RawValues == {0, 2048, ADC_MAX}
SensorTemps == {-127, -41, -40, 23, 85, 86, NaN}
ReadingValues == {-41, -40, -1, 0, 50, 85, 86, 100, 101, NaN}
Tokens == {"jwtA"}
NoToken == ""
NullToken == "null"

-----------------------------------------------------------------------------
(* Float comparisons and the Arduino constrain() macro *)

FLt(a, b) == a # NaN /\ b # NaN /\ a < b
FGt(a, b) == a # NaN /\ b # NaN /\ a > b

constrain(amt, low, high) ==
    IF FLt(amt, low) THEN low ELSE IF FGt(amt, high) THEN high ELSE amt

-----------------------------------------------------------------------------
(* Pure parts of the handlers *)

IsButtonWake_NeverButton(cause) == FALSE

\* setup(): the wake cause that selects handleButtonEvent
IsButtonWake(cause) == cause = "EXT0"

InitWakeArmed_TimerOnly ==
    {[src |-> "TIMER", pin |-> 0, level |-> 0, sec |-> SLEEP_INTERVAL_SEC]}

\* initWake(): the two wake sources it enables
InitWakeArmed ==
    {[src |-> "EXT0", pin |-> BUTTON_PIN, level |-> 0, sec |-> 0],
     [src |-> "TIMER", pin |-> 0, level |-> 0, sec |-> SLEEP_INTERVAL_SEC]}

SyncNeeded_AllModes(mode) == mode = 0 \/ mode = 1 \/ mode = 2

\* syncTimeIfNeeded(): the modes that query the network time service
SyncNeeded(mode) == mode = 0 \/ mode = 2

NtpLoopContinues_NoTimeout(t, ms) == t < PlausibleEpoch

\* syncTimeIfNeeded(): the polling loop's condition
NtpLoopContinues(t, ms) == t < PlausibleEpoch /\ ms < NTP_TIMEOUT_MS

NtpTrusted_Always(t) == TRUE

\* syncTimeIfNeeded(): ntpSynced = now >= 8*3600
NtpTrusted(t) == t >= PlausibleEpoch

\* readSensors(): moisture from the raw ADC value
MoistureOf(raw) == constrain(((ADC_MAX - raw) * 100) \div ADC_MAX, 0, 100)

\* readSensors(): temperature from the sensor library's value
TemperatureOf(c) == constrain(c, -40, 85)

OutOfRange_NoUpperTemp(m, t) == FLt(m, 0) \/ FGt(m, 100) \/ FLt(t, -40)

\* sendData(): the validation gate
OutOfRange(m, t) == FLt(m, 0) \/ FGt(m, 100) \/ FLt(t, -40) \/ FGt(t, 85)

\* getFormattedTime(): the formatted current time, a non-empty string
getFormattedTime(t) == <<"ISO8601", t>>

EmptyString == <<>>

PayloadDoc_AlwaysStamped(m, t, synced, clock) ==
    [k \in {"timestamp", "soil_moisture", "temperature"} |->
        IF k = "timestamp" THEN getFormattedTime(clock)
        ELSE IF k = "soil_moisture" THEN m ELSE t]

PayloadDoc_FieldsSwapped(m, t, synced, clock) ==
    LET ts == IF synced THEN getFormattedTime(clock) ELSE EmptyString
        keys == (IF Len(ts) # 0 THEN {"timestamp"} ELSE {})
                    \cup {"soil_moisture", "temperature"}
    IN  [k \in keys |->
            IF k = "timestamp" THEN ts
            ELSE IF k = "soil_moisture" THEN t ELSE m]

\* sendData(): the JSON document, as a function of its keys
PayloadDoc(m, t, synced, clock) ==
    LET ts == IF synced THEN getFormattedTime(clock) ELSE EmptyString
        keys == (IF Len(ts) # 0 THEN {"timestamp"} ELSE {})
                    \cup {"soil_moisture", "temperature"}
    IN  [k \in keys |->
            IF k = "timestamp" THEN ts
            ELSE IF k = "soil_moisture" THEN m ELSE t]

SendSucceeded_CreatedOnly(code) == code = HTTP_CODE_CREATED

\* sendData(): the status codes it reports as success
SendSucceeded(code) == code = HTTP_CODE_CREATED \/ code = HTTP_CODE_OK

NoNet == [wifiBegin |-> 0, configTime |-> 0, authPost |-> 0]

\* no response yet (status 0), and the token field a response may lack
MissingField == "(missing)"
NoResponse == [code |-> 0, token |-> MissingField]

\* what the auth endpoint can answer: a status, and with 200 a body that has
\* a token field or lacks it
AuthResponses ==
    [code : {HTTP_CODE_OK}, token : Tokens \cup {MissingField}]
        \cup [code : HttpCodes \ {HTTP_CODE_OK}, token : {MissingField}]

\* authenticate(): jwtToken = res["token"].as<String>(); a missing field is a
\* null variant, whose String is its JSON text "null"
TokenAsString(field) == IF field = MissingField THEN NullToken ELSE field

-----------------------------------------------------------------------------
(* Initial state: power-on reset, globals at their initialisers *)

Volatile ==
    /\ wakeSources = {}
    /\ wifiStatus = "WL_DISCONNECTED"
    /\ wifiPolls = 0
    /\ now = 0
    /\ elapsed = 0
    /\ ntpSynced = FALSE
    /\ jwtToken = NoToken
    /\ moisture = 0
    /\ temperature = 0
    /\ displayed = <<>>
    /\ attempt = 0
    /\ delayMs = 0
    /\ pauses = <<>>
    /\ posts = <<>>
    /\ net = NoNet
    /\ outcome = "None"
    /\ calls = <<>>
    /\ authResponse = NoResponse

Init ==
    /\ pc = "setup"
    /\ wakeCause = "UNDEFINED"
    /\ TIME_SYNC_MODE \in SyncModes
    /\ Volatile

-----------------------------------------------------------------------------
(* setup(): initHardware, initWake, then the dispatch on the wake cause *)

Setup ==
    /\ pc = "setup"
    /\ wakeSources' = wakeSources \cup InitWakeArmed
    /\ pc' = IF IsButtonWake(wakeCause) THEN "handleButtonEvent" ELSE "connectWiFi"
    /\ UNCHANGED <<wakeCause, TIME_SYNC_MODE, wifiStatus, wifiPolls, now, elapsed,
                   ntpSynced, jwtToken, moisture, temperature, displayed, attempt,
                   delayMs, pauses, posts, net, outcome,
                   calls, authResponse>>

(* connectWiFi(): WiFi.begin, then the loop on WiFi.status() *)

ConnectWiFiBegin ==
    /\ pc = "connectWiFi"
    /\ net' = [net EXCEPT !.wifiBegin = @ + 1]
    /\ calls' = Append(calls, "connectWiFi")
    /\ pc' = "wifiWait"
    /\ UNCHANGED <<wakeCause, TIME_SYNC_MODE, wakeSources, wifiStatus, wifiPolls, now,
                   elapsed, ntpSynced, jwtToken, moisture, temperature, displayed,
                   attempt, delayMs, pauses, posts, outcome,
                   authResponse>>

\* one turn of the loop while the station is not connected: delay(500)
WiFiWaitPoll ==
    /\ pc = "wifiWait"
    /\ wifiStatus # "WL_CONNECTED"
    /\ wifiPolls' = (wifiPolls + 1) % (MaxWifiPolls + 1)
    /\ UNCHANGED <<pc, wakeCause, TIME_SYNC_MODE, wakeSources, wifiStatus, now, elapsed,
                   ntpSynced, jwtToken, moisture, temperature, displayed, attempt,
                   delayMs, pauses, posts, net, outcome,
                   calls, authResponse>>

\* the loop's exit
WiFiConnected ==
    /\ pc = "wifiWait"
    /\ wifiStatus = "WL_CONNECTED"
    /\ pc' = "syncTimeIfNeeded"
    /\ UNCHANGED <<wakeCause, TIME_SYNC_MODE, wakeSources, wifiStatus, wifiPolls, now,
                   elapsed, ntpSynced, jwtToken, moisture, temperature, displayed,
                   attempt, delayMs, pauses, posts, net, outcome,
                   calls, authResponse>>

\* environment: the access point accepts the station
EnvWiFiAssociates ==
    /\ pc = "wifiWait"
    /\ wifiStatus = "WL_DISCONNECTED"
    /\ wifiStatus' = "WL_CONNECTED"
    /\ UNCHANGED <<pc, wakeCause, TIME_SYNC_MODE, wakeSources, wifiPolls, now, elapsed,
                   ntpSynced, jwtToken, moisture, temperature, displayed, attempt,
                   delayMs, pauses, posts, net, outcome,
                   calls, authResponse>>

(* syncTimeIfNeeded() *)

SyncTimeStart ==
    /\ pc = "syncTimeIfNeeded"
    /\ calls' = Append(calls, "syncTimeIfNeeded")
    /\ IF SyncNeeded(TIME_SYNC_MODE)
       THEN /\ net' = [net EXCEPT !.configTime = @ + 1]
            /\ now' \in TimeValues
            /\ elapsed' = 0
            /\ pc' = "ntpWait"
       ELSE /\ pc' = "authenticate"
            /\ UNCHANGED <<net, now, elapsed>>
    /\ UNCHANGED <<wakeCause, TIME_SYNC_MODE, wakeSources, wifiStatus, wifiPolls,
                   ntpSynced, jwtToken, moisture, temperature, displayed, attempt,
                   delayMs, pauses, posts, outcome,
                   authResponse>>

\* one turn of the polling loop: delay(500); now = time(nullptr)
NtpPoll ==
    /\ pc = "ntpWait"
    /\ NtpLoopContinues(now, elapsed)
    /\ elapsed' = elapsed + NTP_POLL_MS
    /\ now' \in {v \in TimeValues : v >= now}
    /\ UNCHANGED <<pc, wakeCause, TIME_SYNC_MODE, wakeSources, wifiStatus, wifiPolls,
                   ntpSynced, jwtToken, moisture, temperature, displayed, attempt,
                   delayMs, pauses, posts, net, outcome,
                   calls, authResponse>>

\* the loop's exit: ntpSynced = now >= 8*3600
NtpDone ==
    /\ pc = "ntpWait"
    /\ ~NtpLoopContinues(now, elapsed)
    /\ ntpSynced' = NtpTrusted(now)
    /\ pc' = "authenticate"
    /\ UNCHANGED <<wakeCause, TIME_SYNC_MODE, wakeSources, wifiStatus, wifiPolls, now,
                   elapsed, jwtToken, moisture, temperature, displayed, attempt,
                   delayMs, pauses, posts, net, outcome,
                   calls, authResponse>>

(* authenticate(): one POST; on a status other than 200 a second POST whose  *)
(* status is only logged.  A 200 response without a token field leaves the   *)
(* string "null" in jwtToken.                                                *)

Authenticate ==
    /\ pc = "authenticate"
    /\ calls' = Append(calls, "authenticate")
    /\ \E resp \in AuthResponses :
        LET code == resp.code
            field == resp.token
        IN
          /\ authResponse' = resp
          /\ IF code = HTTP_CODE_OK
             THEN /\ jwtToken' = TokenAsString(field)
                  /\ net' = [net EXCEPT !.authPost = @ + 1]
             ELSE /\ net' = [net EXCEPT !.authPost = @ + 2]
                  /\ UNCHANGED jwtToken
    /\ pc' = "readSensors"
    /\ UNCHANGED <<wakeCause, TIME_SYNC_MODE, wakeSources, wifiStatus, wifiPolls, now,
                   elapsed, ntpSynced, moisture, temperature, displayed, attempt,
                   delayMs, pauses, posts, outcome>>

(* readSensors() and showDisplay(), used by both cycles *)

ReadSensors(at, next) ==
    /\ pc = at
    /\ \E raw \in RawValues, c \in SensorTemps :
          /\ moisture' = MoistureOf(raw)
          /\ temperature' = TemperatureOf(c)
    /\ calls' = Append(calls, "readSensors")
    /\ pc' = next
    /\ UNCHANGED <<wakeCause, TIME_SYNC_MODE, wakeSources, wifiStatus, wifiPolls, now,
                   elapsed, ntpSynced, jwtToken, displayed, attempt, delayMs, pauses,
                   posts, net, outcome,
                   authResponse>>

ShowDisplay(at, next) ==
    /\ pc = at
    /\ displayed' = Append(displayed, <<moisture, temperature>>)
    /\ calls' = Append(calls, "showDisplay")
    /\ pc' = next
    /\ UNCHANGED <<wakeCause, TIME_SYNC_MODE, wakeSources, wifiStatus, wifiPolls, now,
                   elapsed, ntpSynced, jwtToken, moisture, temperature, attempt,
                   delayMs, pauses, posts, net, outcome,
                   authResponse>>

FullRead_SkipsDisplay == ReadSensors("readSensors", "sendDataWithRetry")

\* runFullCycle(): tie(moisture, temperature) = readSensors()
FullRead == ReadSensors("readSensors", "showDisplay")

\* runFullCycle(): showDisplay(moisture, temperature); delay(2000)
FullDisplay == ShowDisplay("showDisplay", "sendDataWithRetry")

\* handleButtonEvent(): tie(moisture, temperature) = readSensors()
ButtonRead == ReadSensors("handleButtonEvent", "buttonDisplay")

\* handleButtonEvent(): showDisplay(moisture, temperature); delay(DISPLAY_DURATION_MS)
ButtonDisplay == ShowDisplay("buttonDisplay", "goToDeepSleep")

(* sendDataWithRetry() around sendData() *)

\* entry: int attempt = 0; unsigned long delayMs = 1000
SendBegin ==
    /\ pc = "sendDataWithRetry"
    /\ attempt' = 0
    /\ delayMs' = INITIAL_DELAY_MS
    /\ calls' = Append(calls, "sendDataWithRetry")
    /\ pc' = "sendLoop"
    /\ UNCHANGED <<wakeCause, TIME_SYNC_MODE, wakeSources, wifiStatus, wifiPolls, now,
                   elapsed, ntpSynced, jwtToken, moisture, temperature, displayed,
                   pauses, posts, net, outcome,
                   authResponse>>

\* the telemetry POST of sendData() with the collector's status
TelemetryPost(code) ==
    [authorization |-> jwtToken,
     body |-> PayloadDoc(moisture, temperature, ntpSynced, now),
     code |-> code]

SendFailed_LinearBackoff ==
    /\ pauses' = Append(pauses, delayMs)
    /\ delayMs' = delayMs + INITIAL_DELAY_MS
    /\ attempt' = attempt + 1
    /\ UNCHANGED <<pc, outcome>>

\* after a failed sendData(): delay(delayMs); delayMs *= 2; attempt++
SendFailed ==
    /\ pauses' = Append(pauses, delayMs)
    /\ delayMs' = delayMs * 2
    /\ attempt' = attempt + 1
    /\ UNCHANGED <<pc, outcome>>

\* one turn of the loop: sendData(), then return or back off
SendAttempt ==
    /\ pc = "sendLoop"
    /\ attempt < MAX_RETRIES
    /\ IF OutOfRange(moisture, temperature)
       THEN /\ UNCHANGED posts
            /\ SendFailed
       ELSE \E code \in HttpCodes :
               /\ posts' = Append(posts, TelemetryPost(code))
               /\ IF SendSucceeded(code)
                  THEN /\ outcome' = "Sent"
                       /\ pc' = "goToDeepSleep"
                       /\ UNCHANGED <<pauses, delayMs, attempt>>
                  ELSE SendFailed
    /\ UNCHANGED <<wakeCause, TIME_SYNC_MODE, wakeSources, wifiStatus, wifiPolls, now,
                   elapsed, ntpSynced, jwtToken, moisture, temperature, displayed, net,
                   calls, authResponse>>

\* the loop's exit: "Max retries reached, giving up"
SendGiveUp ==
    /\ pc = "sendLoop"
    /\ ~(attempt < MAX_RETRIES)
    /\ outcome' = "Abandoned"
    /\ pc' = "goToDeepSleep"
    /\ UNCHANGED <<wakeCause, TIME_SYNC_MODE, wakeSources, wifiStatus, wifiPolls, now,
                   elapsed, ntpSynced, jwtToken, moisture, temperature, displayed,
                   attempt, delayMs, pauses, posts, net,
                   calls, authResponse>>

(* goToDeepSleep() and the next boot *)

GoToDeepSleep ==
    /\ pc = "goToDeepSleep"
    /\ calls' = Append(calls, "goToDeepSleep")
    /\ pc' = "sleeping"
    /\ UNCHANGED <<wakeCause, TIME_SYNC_MODE, wakeSources, wifiStatus, wifiPolls, now,
                   elapsed, ntpSynced, jwtToken, moisture, temperature, displayed,
                   attempt, delayMs, pauses, posts, net, outcome,
                   authResponse>>

Wake_KeepsGlobals ==
    /\ pc = "sleeping"
    /\ \E w \in wakeSources : wakeCause' = w.src
    /\ pc' = "setup"
    /\ wakeSources' = {}
    /\ wifiStatus' = "WL_DISCONNECTED"
    /\ wifiPolls' = 0
    /\ now' = 0
    /\ elapsed' = 0
    /\ moisture' = 0
    /\ temperature' = 0
    /\ displayed' = <<>>
    /\ attempt' = 0
    /\ delayMs' = 0
    /\ pauses' = <<>>
    /\ posts' = <<>>
    /\ net' = NoNet
    /\ outcome' = "None"
    /\ calls' = <<>>
    /\ authResponse' = NoResponse
    /\ UNCHANGED <<TIME_SYNC_MODE, ntpSynced, jwtToken>>

\* environment: an armed wake source fires; the chip boots and setup() runs
\* again with every global at its initialiser
Wake ==
    /\ pc = "sleeping"
    /\ \E w \in wakeSources : wakeCause' = w.src
    /\ pc' = "setup"
    /\ wakeSources' = {}
    /\ wifiStatus' = "WL_DISCONNECTED"
    /\ wifiPolls' = 0
    /\ now' = 0
    /\ elapsed' = 0
    /\ ntpSynced' = FALSE
    /\ jwtToken' = NoToken
    /\ moisture' = 0
    /\ temperature' = 0
    /\ displayed' = <<>>
    /\ attempt' = 0
    /\ delayMs' = 0
    /\ pauses' = <<>>
    /\ posts' = <<>>
    /\ net' = NoNet
    /\ outcome' = "None"
    /\ calls' = <<>>
    /\ authResponse' = NoResponse
    /\ UNCHANGED TIME_SYNC_MODE

-----------------------------------------------------------------------------
Device ==
    \/ Setup
    \/ ConnectWiFiBegin
    \/ WiFiWaitPoll
    \/ WiFiConnected
    \/ SyncTimeStart
    \/ NtpPoll
    \/ NtpDone
    \/ Authenticate
    \/ FullRead
    \/ FullDisplay
    \/ ButtonRead
    \/ ButtonDisplay
    \/ SendBegin
    \/ SendAttempt
    \/ SendGiveUp
    \/ GoToDeepSleep

Environment ==
    \/ EnvWiFiAssociates
    \/ Wake

Next == Device \/ Environment

Spec == Init /\ [][Next]_vars

\* the program always takes its next step; the environment owes nothing
FairSpec == Init /\ [][Next]_vars /\ WF_vars(Device)

(* sendDataWithRetry(moisture, temperature) entered with any reading, token *)
(* and clock trust                                                          *)
InitDeliver ==
    /\ pc = "sendDataWithRetry"
    /\ wakeCause \in {"UNDEFINED", "TIMER"}
    /\ TIME_SYNC_MODE \in SyncModes
    /\ authResponse \in AuthResponses
    /\ wakeSources = InitWakeArmed
    /\ wifiStatus = "WL_CONNECTED"
    /\ wifiPolls = 0
    /\ now \in TimeValues
    /\ elapsed = 0
    /\ ntpSynced \in BOOLEAN
    /\ ntpSynced => (TIME_SYNC_MODE # 1 /\ now >= PlausibleEpoch)
    /\ moisture \in ReadingValues
    /\ temperature \in ReadingValues
    /\ displayed = <<<<moisture, temperature>>>>
    /\ attempt = 0
    /\ delayMs = 0
    /\ pauses = <<>>
    /\ posts = <<>>
    /\ net = [wifiBegin |-> 1,
              configTime |-> IF TIME_SYNC_MODE = 1 THEN 0 ELSE 1,
              authPost |-> IF authResponse.code = 200 THEN 1 ELSE 2]
    /\ outcome = "None"
    /\ calls = <<"connectWiFi", "syncTimeIfNeeded", "authenticate", "readSensors",
                 "showDisplay">>
    /\ jwtToken = IF authResponse.code = 200 THEN TokenAsString(authResponse.token)
                  ELSE NoToken

DeliverSpec == InitDeliver /\ [][Next]_vars

-----------------------------------------------------------------------------
(* Properties *)

Success(code) == code \in {200, 201}

InBounds(m, t) ==
    /\ m # NaN /\ t # NaN
    /\ 0 <= m /\ m <= 100
    /\ -40 <= t /\ t <= 85

\* a value that is a number and lies outside its interval
Outside(m, t) ==
    \/ m # NaN /\ (m < 0 \/ m > 100)
    \/ t # NaN /\ (t < -40 \/ t > 85)

BothWakeSources ==
    {[src |-> "EXT0", pin |-> 14, level |-> 0, sec |-> 0],
     [src |-> "TIMER", pin |-> 0, level |-> 0, sec |-> 3600]}

HasTimestamp(post) == "timestamp" \in DOMAIN post.body

\* C1: while no token is present, no telemetry POST is issued and delivery,
\* once ended, has ended as Abandoned.
TokenAbsentNoTelemetry ==
    jwtToken = NoToken =>
        /\ posts = <<>>
        /\ outcome \in {"None", "Abandoned"}

\* C2: when every attempt failed, there were exactly 3 attempts and exactly 2
\* pauses, 1000 ms then 2000 ms, none after the 3rd attempt.
AllFailingTwoPauses ==
    outcome = "Abandoned" =>
        /\ attempt = 3
        /\ pauses = <<1000, 2000>>

\* C3: a reading within bounds with a token present gets at least one
\* telemetry POST by the end of delivery; a reading with a value outside its
\* bounds gets none over the whole retry loop and delivery ends as Abandoned.
ValidationGate ==
    /\ (outcome # "None" /\ InBounds(moisture, temperature) /\ jwtToken # NoToken)
          => Len(posts) >= 1
    /\ Outside(moisture, temperature)
          => (posts = <<>> /\ outcome \in {"None", "Abandoned"})

ValidationGateWitness ==
    /\ Outside(moisture, temperature)
    /\ outcome = "Abandoned"
    /\ attempt = MAX_RETRIES
    /\ posts = <<>>

\* C4: every wake cycle terminates and reaches deep sleep, whatever the
\* environment does (a network that never becomes reachable included).
EveryCycleReachesSleep == (pc = "setup") ~> (pc = "sleeping")

\* C5: a cycle woken by the button performs no network operation, hands the
\* display exactly one pair, the reading, and sleeps with both wake sources
\* armed.
ButtonCycleIsLocal ==
    wakeCause = "EXT0" =>
        /\ net = NoNet
        /\ posts = <<>>
        /\ wifiStatus = "WL_DISCONNECTED"
        /\ Len(displayed) <= 1
        /\ pc \in {"goToDeepSleep", "sleeping"} =>
              /\ displayed = <<<<moisture, temperature>>>>
              /\ wakeSources = BothWakeSources

ButtonCycleWitness ==
    /\ wakeCause = "EXT0"
    /\ pc = "sleeping"
    /\ Len(displayed) = 1

\* C6: when the first attempt's POST succeeds, delivery is Sent after that
\* one POST and no pause; nothing follows it.
FirstAttemptSuccess ==
    (Len(posts) >= 1 /\ Success(posts[1].code)) =>
        /\ Len(posts) = 1
        /\ pauses = <<>>
        /\ attempt = 0
        /\ outcome = "Sent"
        /\ pc \in {"goToDeepSleep", "sleeping"}

FirstAttemptSuccessWitness ==
    /\ pc = "sleeping"
    /\ outcome = "Sent"
    /\ Len(posts) = 1
    /\ posts[1].code = 200

\* C7: every telemetry POST carries the timestamp field iff ntpSynced, and
\* always carries soil_moisture and temperature.
TimestampIffSynced ==
    \A i \in 1..Len(posts) :
        /\ HasTimestamp(posts[i]) <=> ntpSynced
        /\ {"soil_moisture", "temperature"} \subseteq DOMAIN posts[i].body

TimestampIffSyncedWitness ==
    /\ Len(posts) >= 1
    /\ ntpSynced
    /\ HasTimestamp(posts[1])

\* C8: in mode 1 (ServerOnly) the clock stays untrusted and no telemetry
\* payload carries a timestamp.
ServerOnlyUntrusted ==
    TIME_SYNC_MODE = 1 =>
        /\ ntpSynced = FALSE
        /\ \A i \in 1..Len(posts) : ~HasTimestamp(posts[i])

ServerOnlyWitness ==
    /\ TIME_SYNC_MODE = 1
    /\ Len(posts) >= 1
    /\ ~HasTimestamp(posts[1])

AfterTimeSync ==
    pc \in {"authenticate", "readSensors", "showDisplay", "sendDataWithRetry",
            "sendLoop", "goToDeepSleep", "sleeping"}

\* the polling loop ran to the timeout without a plausible epoch
NtpTimedOut == elapsed >= 5000 /\ now < 8 * 3600

\* C9: in mode 2 (Hybrid), when the time query timed out without a plausible
\* epoch, the clock is left untrusted, the cycle goes on to authenticate, and
\* the payloads have the ServerOnly shape: no timestamp.
HybridTimeoutFallsBack ==
    /\ [](TIME_SYNC_MODE = 2 /\ NtpTimedOut /\ AfterTimeSync =>
            /\ ntpSynced = FALSE
            /\ \A i \in 1..Len(posts) :
                  DOMAIN posts[i].body = {"soil_moisture", "temperature"})
    /\ [][TIME_SYNC_MODE = 2 /\ NtpTimedOut /\ pc = "ntpWait"
            => pc' = "authenticate" /\ ntpSynced' = FALSE]_vars

HybridTimeoutWitness ==
    /\ TIME_SYNC_MODE = 2
    /\ NtpTimedOut
    /\ Len(posts) >= 1
    /\ ~HasTimestamp(posts[1])
    /\ pc = "sleeping"

\* C10: whenever the device enters deep sleep, exactly the two wake sources
\* are armed: EXT0 on the button pin, level 0, and the timer at
\* SLEEP_INTERVAL_SEC.
SleepArmsBothSources ==
    pc \in {"goToDeepSleep", "sleeping"} => wakeSources = BothWakeSources

SleepArmsBothWitness ==
    /\ pc = "sleeping"
    /\ wakeCause = "TIMER"
    /\ outcome # "None"
    /\ Cardinality(wakeSources) = 2

\* C11: a full cycle whose connectivity or authentication fails still
\* acquires and renders the reading and reaches deep sleep.
FailureStillRendersAndSleeps ==
    (pc = "connectWiFi") ~> (pc = "sleeping" /\ Len(displayed) = 1)

Called(f) == \E i \in 1..Len(calls) : calls[i] = f

\* C12: the token and the clock-trust flag never survive a sleep boundary:
\* until this cycle's authenticate has run no token is held, until this
\* cycle's syncTimeIfNeeded has run the clock is untrusted, a telemetry POST
\* carries no token other than the one of this cycle's auth response, and it
\* carries a timestamp only after this cycle's time query saw a plausible time.
CycleStateIsFresh ==
    /\ ~Called("authenticate") => jwtToken = ""
    /\ ~Called("syncTimeIfNeeded") => ntpSynced = FALSE
    /\ \A i \in 1..Len(posts) :
          /\ Called("authenticate")
          /\ posts[i].authorization # "" =>
                /\ authResponse.code = 200
                /\ posts[i].authorization =
                      (IF authResponse.token = "(missing)" THEN "null"
                       ELSE authResponse.token)
          /\ HasTimestamp(posts[i]) =>
                /\ Called("syncTimeIfNeeded")
                /\ net.configTime = 1
                /\ now >= 8 * 3600

\* a later cycle (only a cycle after a sleep has the timer as its wake cause)
\* posting with its own token and timestamp
CycleStateIsFreshWitness ==
    /\ wakeCause = "TIMER"
    /\ Len(posts) >= 1
    /\ posts[1].authorization = "jwtA"
    /\ authResponse = [code |-> 200, token |-> "jwtA"]
    /\ HasTimestamp(posts[1])

FullOrder ==
    <<"connectWiFi", "syncTimeIfNeeded", "authenticate", "readSensors",
      "showDisplay", "sendDataWithRetry", "goToDeepSleep">>

\* C13: on a wake cause other than the button the functions of the cycle are
\* called in the order connectWiFi, syncTimeIfNeeded, authenticate,
\* readSensors, showDisplay, sendDataWithRetry, goToDeepSleep, each at most
\* once; a sleeping device has run them all; a telemetry POST is made only
\* after authenticate and showDisplay.
FullCycleInOrder ==
    wakeCause # "EXT0" =>
        /\ Len(calls) <= Len(FullOrder)
        /\ calls = SubSeq(FullOrder, 1, Len(calls))
        /\ pc = "sleeping" => calls = FullOrder
        /\ posts # <<>> =>
              /\ Called("authenticate")
              /\ Called("showDisplay")
              /\ authResponse.code # 0
              /\ Len(displayed) = 1

FullCycleInOrderWitness ==
    /\ wakeCause = "UNDEFINED"
    /\ pc = "sleeping"
    /\ calls = FullOrder
    /\ Len(posts) = 2

\* C14: an invocation of authenticate issues exactly one POST, and each
\* delivery attempt that passes the validation gate issues exactly one POST,
\* whether the POST succeeds or fails.
OnePostPerInvocation ==
    /\ net.authPost = (IF Called("authenticate") THEN 1 ELSE 0)
    /\ ~Outside(moisture, temperature) =>
          Len(posts) = attempt + (IF outcome = "Sent" THEN 1 ELSE 0)

\* C15: a reading that violates its bounds is abandoned at once: the gate is
\* evaluated once, no further attempt is made and no backoff pause is taken.
OutOfBoundsAbandonedAtOnce ==
    Outside(moisture, temperature) =>
        /\ attempt <= 1
        /\ pauses = <<>>

\* C16: a reading with a NaN moisture or temperature is stopped by the
\* validation gate: no telemetry POST is made for it.
NaNStoppedByGate ==
    (moisture = NaN \/ temperature = NaN) => posts = <<>>

\* C17: after authenticate a token is held iff the response had status 200
\* and a token field; a 200 response without the field leaves no token.
TokenHeldIffWellFormed ==
    Called("authenticate") =>
        (jwtToken # "" <=> (authResponse.code = 200 /\ authResponse.token # "(missing)"))

\* syncTimeIfNeeded has returned in a mode that queries the time service
TimeQueryDone ==
    /\ TIME_SYNC_MODE \in {0, 2}
    /\ Called("syncTimeIfNeeded")
    /\ pc # "ntpWait"

\* C18 as claimed: on exit the clock is trusted iff a plausible value was
\* observed before the 5000 ms had elapsed; a plausible value first read by
\* the poll made once they have elapsed does not establish trust.
TrustOnlyWithinTimeout ==
    TimeQueryDone => (ntpSynced <=> (now >= 8 * 3600 /\ elapsed < 5000))

\* C18 as amended: in modes 0 and 2 the polling loop ends, after at most 10
\* polls of 500 ms, and on exit the clock is trusted iff the last value read
\* is plausible (at least 8*3600), the value read by the final poll, made
\* once the 5000 ms have elapsed, included.
NtpLoopEndsAndTrustsLastValue ==
    /\ [](elapsed <= 5000 /\ elapsed % 500 = 0)
    /\ [](TimeQueryDone => (ntpSynced <=> now >= 8 * 3600))
    /\ (pc = "ntpWait") ~> (pc = "authenticate")

\* the final poll, made once the timeout has elapsed, established trust
LateObservationTrustedWitness ==
    /\ TimeQueryDone
    /\ elapsed = 5000
    /\ now >= 8 * 3600
    /\ ntpSynced
    /\ Len(posts) >= 1
    /\ HasTimestamp(posts[1])

\* C19: at most MAX_RETRIES telemetry POSTs per cycle; only the last POST can
\* have succeeded (status 200 or 201) and delivery is Sent exactly then;
\* delivery is Abandoned only after MAX_RETRIES failed attempts; one pause
\* follows each failed attempt and the k-th pause is 1000 * 2^(k-1) ms.
RetryProtocol ==
    /\ Len(posts) <= 3
    /\ \A i \in 1..(Len(posts) - 1) : ~Success(posts[i].code)
    /\ outcome = "Sent" <=> (posts # <<>> /\ Success(posts[Len(posts)].code))
    /\ outcome = "Abandoned" =>
          /\ attempt = 3
          /\ \A i \in 1..Len(posts) : ~Success(posts[i].code)
    /\ posts # <<>> => Len(posts) = attempt + (IF outcome = "Sent" THEN 1 ELSE 0)
    /\ Len(pauses) = attempt
    /\ \A k \in 1..Len(pauses) : pauses[k] = 1000 * 2^(k - 1)

RetryProtocolWitness ==
    /\ outcome = "Sent"
    /\ Len(posts) = 3
    /\ posts[3].code = 201
    /\ pauses = <<1000, 2000>>

\* C20: the sensors are read once per cycle and the reading is not changed
\* afterwards: the pair handed to the display is the pair held by the cycle
\* and the pair carried by every telemetry POST, retries included.
ReadingIsImmutable ==
    /\ Cardinality({i \in 1..Len(calls) : calls[i] = "readSensors"}) <= 1
    /\ Len(displayed) <= 1
    /\ \A i \in 1..Len(displayed) : displayed[i] = <<moisture, temperature>>
    /\ \A i \in 1..Len(posts) :
          /\ Len(displayed) = 1
          /\ displayed[1] = <<posts[i].body.soil_moisture, posts[i].body.temperature>>

\* a retry carrying the displayed pair, with two different values in it
ReadingIsImmutableWitness ==
    /\ Len(posts) = 3
    /\ displayed = <<<<49, 23>>>>
    /\ posts[3].body.soil_moisture = 49
    /\ posts[3].body.temperature = 23

====
